---- MODULE Spec2Model ----
(***************************************************************************)
(* A model of bluepass/messagebus.py: the JSON-RPC frame scanner, the      *)
(* connection engine (read pump, write pump, dispatch, call table), the    *)
(* handler registry and the multi-connection server.                       *)
(***************************************************************************)
EXTENDS Integers, Sequences, FiniteSets, TLC

VARIABLES
    scan_buf,   \* find_message_end: the argument buf
    scan_res,   \* find_message_end: its outcome, or Pending before the call
    conns,      \* the MessageBusConnection objects, by connection number
    run_queue,  \* the loop's deferred callbacks (create_callback), in order
    timers,     \* the armed timers (create_timer): <<connection, call id>>
    waiters,    \* the Waiter objects (rendezvous), by number
    server,     \* the MessageBusServer object
    local,      \* MessageBusHandler.local: the dispatch contexts, by context key
    greenlets,  \* the handler greenlets that gevent.spawn started, by number
    hist        \* what the environment observed: callback deliveries,
                \* lifecycle events, exceptions that escaped into the loop

scanVars == <<scan_buf, scan_res>>
worldVars == <<conns, run_queue, timers, waiters, server, local, greenlets, hist>>
vars == <<scan_buf, scan_res, conns, run_queue, timers, waiters, server, local, greenlets, hist>>

(***************************************************************************)
(* Bounds of the model.                                                    *)
(***************************************************************************)
MaxBufLen == 6      \* SpecScan: the longest buffer scanned
MaxRecvs == 2       \* the most recv() calls of one read-pump pass that return data
MaxPasses == 1      \* the most read-pump passes of a behaviour
MaxSends == 2       \* the most send() calls of one write-pump pass that take data
MaxSignals == 1     \* the most send_signal calls of a behaviour
MaxSteps == 1       \* the most early_response/delay_response calls of a handler
MaxConns == 2       \* the most connections the server accepts
MaxSerial == 2      \* the most ids a connection allocates
MaxCalls == 1       \* the most calls registered on one connection, and the most fan-out calls

(***************************************************************************)
(* Characters. A buffer is a sequence of one-character strings.            *)
(***************************************************************************)
LBrace == "{"
RBrace == "}"
Quote == "\""
Backslash == "\\"
Space == " "
Letter == "a"

Alphabet == {LBrace, RBrace, Quote, Backslash, Space, Letter}

\* str.isspace() on the characters of the alphabet
isspace(ch) == ch = Space

(***************************************************************************)
(* find_message_end (messagebus.py 33-63).                                 *)
(***************************************************************************)
s_preamble == "s_preamble"
s_object == "s_object"
s_string == "s_string"
s_string_escape == "s_string_escape"

\* outcomes: a returned integer, or a raised ValueError
Return(v) == [kind |-> "return", value |-> v]
RaiseValueError == [kind |-> "raise", value |-> 0]
\* find_message_end was not called yet
Pending == [kind |-> "pending", value |-> 0]

\* state after the character ch is consumed (lines 41-60); "raise" on line 46
NextScanState(state, ch) ==
    IF state = s_preamble THEN
        IF ch = LBrace THEN s_object
        ELSE IF ~isspace(ch) THEN "raise"
        ELSE s_preamble
    ELSE IF state = s_object THEN
        IF ch = Quote THEN s_string ELSE s_object
    ELSE IF state = s_string THEN
        IF ch = Quote THEN s_object
        ELSE IF ch = Backslash THEN s_string_escape
        ELSE s_string
    ELSE s_string

\* a scanner that also counts the braces inside string literals
NextScanDepth_CountsInStrings(state, depth, ch) ==
    IF state = s_preamble THEN (IF ch = LBrace THEN 1 ELSE depth)
    ELSE IF ch = LBrace THEN depth + 1
    ELSE IF ch = RBrace THEN depth - 1
    ELSE depth

\* depth after the character ch is consumed in `state` (lines 44, 49, 51)
NextScanDepth(state, depth, ch) ==
    IF state = s_preamble THEN (IF ch = LBrace THEN 1 ELSE depth)
    ELSE IF state = s_object THEN
        IF ch = LBrace THEN depth + 1
        ELSE IF ch = RBrace THEN depth - 1
        ELSE depth
    ELSE depth

RECURSIVE ScanFrom(_, _, _, _)
\* the for loop of lines 39-62 from (0-based) index i on
ScanFrom(buf, i, state, depth) ==
    IF i >= Len(buf) THEN Return(-1)
    ELSE LET ch == buf[i + 1]
             st == NextScanState(state, ch)
             dp == NextScanDepth(state, depth, ch)
         IN  IF st = "raise" THEN RaiseValueError
             ELSE IF st = s_object /\ dp = 0 THEN Return(i)
             ELSE ScanFrom(buf, i + 1, st, dp)

find_message_end(buf) == ScanFrom(buf, 0, s_preamble, 0)

(***************************************************************************)
(* Messages and their wire text.  A decoded message is a dict: here a      *)
(* function from its keys to their values.  bluepass.util.json is not part *)
(* of the sources; the wire text used here is a compact object notation    *)
(* with one character per member, which the frame scanner treats as it     *)
(* treats JSON: "{", members, "}", whitespace allowed between members.     *)
(*   j  "jsonrpc": "2.0"      v  "jsonrpc": "1.0"                          *)
(*   1, 2, 3  "id": 1, 2, 3   m  "method": "ping"    n  "method": "nope"   *)
(*   p  "params": []          q  "params": ["x"]                           *)
(*   r  "result": "ok"        e  "error": {"code": "Failed"}               *)
(***************************************************************************)
MemberChars == {"j", "v", "1", "2", "3", "m", "n", "p", "q", "r", "e"}

KeyOf(ch) ==
    CASE ch \in {"j", "v"} -> "jsonrpc"
      [] ch \in {"1", "2", "3"} -> "id"
      [] ch \in {"m", "n"} -> "method"
      [] ch \in {"p", "q"} -> "params"
      [] ch = "r" -> "result"
      [] OTHER -> "error"

IdOfChar(ch) == CASE ch = "1" -> 1 [] ch = "2" -> 2 [] OTHER -> 3

ValueOf(ch) ==
    CASE ch = "j" -> [str |-> "2.0"]
      [] ch = "v" -> [str |-> "1.0"]
      [] ch \in {"1", "2", "3"} -> [int |-> IdOfChar(ch)]
      [] ch = "m" -> [str |-> "ping"]
      [] ch = "n" -> [str |-> "nope"]
      [] ch = "p" -> [list |-> <<>>]
      [] ch = "q" -> [list |-> <<"x">>]
      [] ch = "r" -> [str |-> "ok"]
      [] OTHER -> [code |-> "Failed"]

\* the element of a one-element set: Only({F(x) : x \in {e}}) is F(e) with e
\* worked out once
Only(S) == CHOOSE x \in S : TRUE

\* Python's None, and a value that is not None
None == [none |-> TRUE]
Some(v) == [none |-> FALSE, val |-> v]

\* the last index of `body` holding a member with key k (a later member wins)
LastWithKey(body, k) ==
    CHOOSE i \in 1..Len(body) :
        /\ body[i] \in MemberChars /\ KeyOf(body[i]) = k
        /\ \A j \in (i + 1)..Len(body) : ~(body[j] \in MemberChars /\ KeyOf(body[j]) = k)

\* json.try_loads(serialized, dict): the dict, or None when the text does not
\* parse as an object
try_loads(serialized) ==
    IF /\ Len(serialized) >= 2
       /\ serialized[1] = LBrace
       /\ serialized[Len(serialized)] = RBrace
       /\ \A i \in 2..(Len(serialized) - 1) : serialized[i] \in MemberChars \cup {Space}
    THEN LET body == SubSeq(serialized, 2, Len(serialized) - 1)
             keys == {KeyOf(body[i]) : i \in {j \in 1..Len(body) : body[j] \in MemberChars}}
         IN  Some([k \in keys |-> ValueOf(body[LastWithKey(body, k)])])
    ELSE None

CharOfId(n) == CASE n = 1 -> "1" [] n = 2 -> "2" [] OTHER -> "3"

\* the member character of key k of message m
MemberChar(m, k) ==
    CASE k = "jsonrpc" -> (IF m[k] = [str |-> "2.0"] THEN "j" ELSE "v")
      [] k = "id" -> CharOfId(m[k].int)
      [] k = "method" -> (IF m[k] = [str |-> "ping"] THEN "m" ELSE "n")
      [] k = "params" -> (IF m[k] = [list |-> <<>>] THEN "p" ELSE "q")
      [] k = "result" -> "r"
      [] OTHER -> "e"

KeyOrder == <<"jsonrpc", "id", "method", "params", "result", "error">>

RECURSIVE DumpMembers(_, _)
DumpMembers(m, i) ==
    IF i > Len(KeyOrder) THEN <<>>
    ELSE (IF KeyOrder[i] \in DOMAIN m THEN <<Space, MemberChar(m, KeyOrder[i])>> ELSE <<>>)
         \o DumpMembers(m, i + 1)

\* json.dumps(message, indent=2): every member on a line of its own
dumps(m) == <<LBrace>> \o DumpMembers(m, 1) \o <<Space, RBrace>>

\* message builders (send_method_return 274-281, send_error 283-295,
\* send_signal 297-302, call_method 328-332, the timeout error 340-346)
Jsonrpc20 == [str |-> "2.0"]
ReturnMessage(id) == [jsonrpc |-> Jsonrpc20, id |-> [int |-> id], result |-> [str |-> "ok"]]
ErrorMessage(id, code) == [jsonrpc |-> Jsonrpc20, id |-> [int |-> id], error |-> [code |-> code]]
SignalMessage == [jsonrpc |-> Jsonrpc20, method |-> [str |-> "ping"], params |-> [list |-> <<>>]]
CallMessage(id) ==
    [jsonrpc |-> Jsonrpc20, id |-> [int |-> id], method |-> [str |-> "ping"],
     params |-> [list |-> <<>>]]

(***************************************************************************)
(* The connection engine.  Its operations call one another (dispatch calls *)
(* pop_incoming, which calls close, which runs the lifecycle callbacks),   *)
(* so each is an operator from the state of the process before the call to *)
(* its state after it.  That state, the "world" w, has one field per       *)
(* variable.                                                               *)
(***************************************************************************)
World ==
    [conns |-> conns, run_queue |-> run_queue, timers |-> timers,
     waiters |-> waiters, server |-> server, local |-> local, greenlets |-> greenlets,
     hist |-> hist]

\* the variables take the values of the world w
Becomes(w) ==
    \E v \in {w} :
        /\ conns' = v.conns
        /\ run_queue' = v.run_queue
        /\ timers' = v.timers
        /\ waiters' = v.waiters
        /\ server' = v.server
        /\ local' = v.local
        /\ greenlets' = v.greenlets
        /\ hist' = v.hist

\* class attributes of MessageBusConnectionBase (74, 75), scaled down
max_message_size == 6
max_incoming_messages == 1

\* MessageBusConnectionBase.__init__ (80-117), then add_callback (123-125)
\* for each of `callbacks`
NewConnection(peer_name, handler, callbacks) ==
    [peer_name |-> peer_name, handler |-> handler, next_serial |-> 1, closed |-> FALSE,
     callbacks |-> callbacks, method_calls |-> [k \in {} |-> None],
     read_event |-> TRUE, write_event |-> TRUE,
     inbuf |-> <<>>, outbuf |-> <<>>, incoming |-> <<>>, outgoing |-> <<>>,
     reading |-> TRUE, writing |-> TRUE]

\* an exception escapes from a callback into the event loop, which reports it
Escapes(w, exception) == [w EXCEPT !.hist.errors = @ \cup {exception}]

\* GEventLoop.create_callback (385-386)
create_callback(w, entry) == [w EXCEPT !.run_queue = Append(@, entry)]

\* Waiter() (411, 651): no greenlet waits, nothing is stored.  `got` is what
\* get() returned to the caller, `resumed` counts the times the caller was
\* resumed, `switched` lists the values given to switch().
NewWaiter == [greenlet |-> FALSE, value |-> None, got |-> None, resumed |-> 0,
              switched |-> <<>>]

\* a switch() that resumes the caller whether or not it still waits
WaiterSwitch_AlwaysResumes(w, wid, value) ==
    [w EXCEPT !.waiters[wid].greenlet = FALSE,
              !.waiters[wid].got = Some(value),
              !.waiters[wid].resumed = @ + 1,
              !.waiters[wid].switched = Append(@, value)]

\* Waiter.switch, as used by the internal reply callbacks (412-413, 652-653):
\* a waiting greenlet is resumed with the value, which its get() returns;
\* with no greenlet waiting the value is only stored
WaiterSwitch(w, wid, value) ==
    IF w.waiters[wid].greenlet
    THEN [w EXCEPT !.waiters[wid].greenlet = FALSE,
                   !.waiters[wid].got = Some(value),
                   !.waiters[wid].resumed = @ + 1,
                   !.waiters[wid].switched = Append(@, value)]
    ELSE [w EXCEPT !.waiters[wid].value = Some(value),
                   !.waiters[wid].switched = Append(@, value)]

\* Waiter.get (415, 657): returns a stored value at once, else the calling
\* greenlet waits
WaiterGet(w, wid) ==
    IF w.waiters[wid].value.none
    THEN [w EXCEPT !.waiters[wid].greenlet = TRUE]
    ELSE [w EXCEPT !.waiters[wid].got = w.waiters[wid].value]

\* what the synchronous caller does with the reply it got (416-420, 658-662)
CallerOutcome(reply) ==
    IF "error" \in DOMAIN reply
    THEN [kind |-> "raise MessageBusError", value |-> reply.error.code]
    ELSE [kind |-> "return", value |-> reply.result.str]

\* the reply callback given to call_method is called with `reply`: a user
\* callback (the environment counts its calls) or a Waiter's switch
InvokeCallback(w, callback, c, id, reply) ==
    LET w1 == [w EXCEPT !.hist.delivered[<<c, id>>] = Append(@, reply)]
    IN  IF callback.kind = "waiter" THEN WaiterSwitch(w1, callback.waiter, reply) ELSE w1

\* push_outgoing that enables the write watch whether the connection is closed
\* or not
push_outgoing_IgnoresClosed(w, c, message) ==
    LET w1 == [w EXCEPT !.conns[c].outgoing = Append(@, dumps(message)),
                        !.hist.pushed = Append(@, dumps(message))]
    IN  IF ~w1.conns[c].writing
        THEN [w1 EXCEPT !.conns[c].write_event = TRUE, !.conns[c].writing = TRUE]
        ELSE w1

\* MessageBusConnectionBase.push_outgoing (246-254)
push_outgoing(w, c, message) ==
    LET w1 == [w EXCEPT !.conns[c].outgoing = Append(@, dumps(message)),
                        !.hist.pushed = Append(@, dumps(message))]
    IN  IF ~w1.conns[c].closed /\ ~w1.conns[c].writing
        THEN [w1 EXCEPT !.conns[c].write_event = TRUE, !.conns[c].writing = TRUE]
        ELSE w1

\* MessageBusConnectionBase.check_message (214-225)
check_message(message) ==
    /\ "jsonrpc" \in DOMAIN message
    /\ "str" \in DOMAIN message.jsonrpc
    /\ message.jsonrpc.str = "2.0"

\* list.remove(x): the list without the first occurrence of x
RECURSIVE ListRemove(_, _)
ListRemove(list, x) ==
    IF list = <<>> THEN <<>>
    ELSE IF Head(list) = x THEN Tail(list)
    ELSE <<Head(list)>> \o ListRemove(Tail(list), x)

\* MessageBusServer._run_callbacks (615-618): the server's listeners are told
server_run_callbacks(w, event) == [w EXCEPT !.hist.broadcast = Append(@, event)]

\* _connection_event that tells of the last connection whatever the list holds
connection_event_AlwaysLast(w, c) ==
    server_run_callbacks(
        server_run_callbacks([w EXCEPT !.server.connections = ListRemove(@, c)],
                             <<"ConnectionClosed", c>>),
        <<"LastConnectionClosed", 0>>)

\* MessageBusServer._connection_event('ConnectionClosed', connection) (620-626)
connection_event(w, c) ==
    LET last(w2) ==
            IF Len(w2.server.connections) = 0
            THEN server_run_callbacks(w2, <<"LastConnectionClosed", 0>>)
            ELSE w2
    IN  Only({last(w2) : w2 \in {server_run_callbacks(
                                    [w EXCEPT !.server.connections = ListRemove(@, c)],
                                    <<"ConnectionClosed", c>>)}})

RECURSIVE close(_, _), run_callbacks(_, _, _)
\* close() without its test of the closed flag
close_NoGuard(w, c) ==
    run_callbacks([w EXCEPT !.conns[c].read_event = FALSE,
                            !.conns[c].write_event = FALSE,
                            !.conns[c].closed = TRUE], c, 1)

\* MessageBusConnectionBase.close (227-244)
close(w, c) ==
    LET shut(v) ==
            IF v.conns[c].closed THEN v
            ELSE run_callbacks([v EXCEPT !.conns[c].read_event = FALSE,
                                         !.conns[c].write_event = FALSE,
                                         !.conns[c].closed = TRUE], c, 1)
    IN  Only({shut(v) : v \in {w}})

\* MessageBusConnectionBase._run_callbacks('ConnectionClosed', self) (127-130),
\* from the i-th registered callback on.  The callback "observer" only takes
\* note of the event; "closer" also calls close() on the connection when the
\* event is the first it is told of; "server" is the server's
\* _connection_event, registered by handle_connection (601).
run_callbacks(w, c, i) ==
    LET tell(v) ==
            IF i > Len(v.conns[c].callbacks) THEN v
            ELSE LET callback == v.conns[c].callbacks[i]
                     first == v.hist.fired[<<c, i>>] = 0
                     w1 == [v EXCEPT !.hist.fired[<<c, i>>] = @ + 1]
                     w2 == IF callback = "closer" /\ first THEN close(w1, c)
                           ELSE IF callback = "server" THEN connection_event(w1, c)
                           ELSE w1
                 IN  run_callbacks(w2, c, i + 1)
    IN  Only({tell(v) : v \in {w}})

\* pop_incoming that never removes the read throttle
pop_incoming_KeepsThrottle(w, c) ==
    IF w.conns[c].incoming = <<>> THEN [w |-> w, message |-> None]
    ELSE LET serialized == Head(w.conns[c].incoming)
             w0 == [w EXCEPT !.conns[c].incoming = Tail(@)]
             message == try_loads(serialized)
             w1 == [w0 EXCEPT !.hist.popped = message,
                              !.hist.taken = Append(@, serialized)]
         IN  IF message.none \/ ~check_message(message.val)
             THEN [w |-> close(w1, c), message |-> None]
             ELSE [w |-> w1, message |-> message]

\* pop_incoming that takes the first message off the queue and returns the
\* second
pop_incoming_SkipsOne(w, c) ==
    IF Len(w.conns[c].incoming) < 2 THEN [w |-> w, message |-> None]
    ELSE LET serialized == w.conns[c].incoming[2]
             message == try_loads(serialized)
             w1 == [w EXCEPT !.conns[c].incoming = Tail(Tail(@)),
                             !.hist.popped = message,
                             !.hist.taken = Append(@, serialized)]
         IN  IF message.none \/ ~check_message(message.val)
             THEN [w |-> close(w1, c), message |-> None]
             ELSE [w |-> w1, message |-> message]

\* MessageBusConnectionBase.pop_incoming (256-272): the world after the call
\* and the message returned (None: nothing there, or an invalid message).
\* hist.popped takes note of the last message taken off the queue, as decoded.
pop_incoming(w, c) ==
    LET pop(v) ==
            IF v.conns[c].incoming = <<>> THEN [w |-> v, message |-> None]
            ELSE LET serialized == Head(v.conns[c].incoming)
                     w0 == [v EXCEPT !.conns[c].incoming = Tail(@)]
                     message == try_loads(serialized)
                     w1 == [w0 EXCEPT !.hist.popped = message,
                                      !.hist.taken = Append(@, serialized)]
                 IN  IF message.none \/ ~check_message(message.val)
                     THEN [w |-> close(w1, c), message |-> None]
                     ELSE IF /\ ~w1.conns[c].reading
                             /\ ~w1.conns[c].closed
                             /\ Len(w1.conns[c].incoming) < max_incoming_messages
                     THEN [w |-> [w1 EXCEPT !.conns[c].read_event = TRUE,
                                            !.conns[c].reading = TRUE],
                           message |-> message]
                     ELSE [w |-> w1, message |-> message]
    IN  Only({pop(v) : v \in {w}})

\* dict.pop(key, None) leaves the dict without key
DictWithout(dict, key) == [k \in DOMAIN dict \ {key} |-> dict[k]]
\* dict[key] = value
DictWith(dict, key, value) ==
    [k \in DOMAIN dict \cup {key} |-> IF k = key THEN value ELSE dict[k]]

\* MessageBusConnection.spawn (401-403): gevent.spawn(handler.dispatch,
\* message, connection) starts a greenlet, which the loop runs later, after
\* the callbacks deferred before it
spawn(w, c, message) ==
    create_callback([w EXCEPT !.hist.handed = Append(@, message)],
                    [fn |-> "handler.dispatch", conn |-> c, message |-> message])

RECURSIVE dispatch(_, _)
\* MessageBusConnectionBase.dispatch (304-319).  message['id'] of a message
\* without id raises KeyError, which ends the loop and escapes into the event
\* loop.
dispatch(w, c) ==
    LET popped(p) ==
            IF p.message.none THEN p.w
            ELSE LET message == p.message.val
                 IN  IF "result" \in DOMAIN message \/ "error" \in DOMAIN message
                     THEN IF "id" \notin DOMAIN message
                          THEN Escapes(p.w, "KeyError in dispatch")
                          ELSE LET key == message.id.int
                                   calls == p.w.conns[c].method_calls
                               IN  IF key \in DOMAIN calls
                                   THEN dispatch(
                                          create_callback(
                                            [p.w EXCEPT !.conns[c].method_calls =
                                                            DictWithout(@, key),
                                                        !.hist.handed = Append(@, message)],
                                            [fn |-> "method_return_callback", conn |-> c,
                                             id |-> key, callback |-> calls[key],
                                             reply |-> message]), c)
                                   ELSE dispatch(p.w, c)
                     ELSE IF p.w.conns[c].handler THEN dispatch(spawn(p.w, c, message), c)
                     ELSE dispatch(p.w, c)
        \* note of what pop_incoming did to the read watch when it returned a
        \* message: the messages left in the queue, the watch before and after,
        \* whether the connection is closed
        noted(p) ==
            IF p.message.none THEN p
            ELSE [p EXCEPT !.w.hist.throttle =
                               Append(@, [kind |-> "popped",
                                          queued |-> Len(p.w.conns[c].incoming),
                                          before |-> w.conns[c].read_event,
                                          after |-> p.w.conns[c].read_event,
                                          closed |-> p.w.conns[c].closed])]
    IN  Only({popped(noted(p)) : p \in {pop_incoming(w, c)}})

\* a method_return_callback whose timeout branch leaves the entry in the table
method_return_callback_KeepsEntry(w, c, id, callback, reply) ==
    IF reply.none
    THEN IF id \notin DOMAIN w.conns[c].method_calls
         THEN Escapes(w, "KeyError in method_return_callback")
         ELSE InvokeCallback(w, callback, c, id, ErrorMessage(id, "Timeout"))
    ELSE InvokeCallback([w EXCEPT !.timers = @ \ {<<c, id>>}], callback, c, id, reply.val)

\* call_method.method_return_callback (337-351) of the call `id` on connection
\* c, registered with the reply callback `callback`; reply is None when the
\* timer calls it
method_return_callback(w, c, id, callback, reply) ==
    IF reply.none
    THEN IF id \notin DOMAIN w.conns[c].method_calls
         THEN Escapes(w, "KeyError in method_return_callback")
         ELSE InvokeCallback([w EXCEPT !.conns[c].method_calls = DictWithout(@, id)],
                             callback, c, id, ErrorMessage(id, "Timeout"))
    ELSE InvokeCallback([w EXCEPT !.timers = @ \ {<<c, id>>}], callback, c, id, reply.val)

\* a call_method that does not advance the serial
call_method_ReusesId(w, c, callback) ==
    LET id == w.conns[c].next_serial
        w2 == push_outgoing(w, c, CallMessage(id))
    IN  [w2 EXCEPT !.timers = @ \cup {<<c, id>>},
                   !.conns[c].method_calls = DictWith(@, id, callback),
                   !.hist.delivered = DictWith(@, <<c, id>>, <<>>)]

\* MessageBusConnectionBase.call_method (325-354) with a reply callback
call_method(w, c, callback) ==
    LET id == w.conns[c].next_serial
        w1 == [w EXCEPT !.conns[c].next_serial = @ + 1]
        w2 == push_outgoing(w1, c, CallMessage(id))
    IN  [w2 EXCEPT !.timers = @ \cup {<<c, id>>},
                   !.conns[c].method_calls = DictWith(@, id, callback),
                   !.hist.delivered = DictWith(@, <<c, id>>, <<>>)]

\* MessageBusConnectionBase.call_method (325-336) without a callback argument:
\* the call is sent and nothing is registered
call_method_unanswered(w, c) ==
    LET id == w.conns[c].next_serial
    IN  push_outgoing([w EXCEPT !.conns[c].next_serial = @ + 1], c, CallMessage(id))

\* MessageBusConnection.call_method (405-421) without a callback argument,
\* up to the point where the caller waits for the reply
call_method_sync(w, c) ==
    LET wid == Len(w.waiters) + 1
        w1 == [w EXCEPT !.waiters = Append(@, NewWaiter)]
        w2 == call_method(w1, c, [kind |-> "waiter", waiter |-> wid])
    IN  WaiterGet(w2, wid)

\* fnmatch(name, pattern) for the patterns used here: "*" matches every name,
\* a pattern without wildcard matches itself
fnmatch(name, pattern) == pattern = "*" \/ pattern = name

\* MessageBusServer.__init__.handle_connection (598-603): the server accepts a
\* connection from the peer `peer_name`
handle_connection(w, peer_name) ==
    LET c == Len(w.conns) + 1
    IN  [w EXCEPT !.conns = Append(@, NewConnection(peer_name, TRUE, <<"server">>)),
                  !.server.connections = Append(@, c),
                  !.hist.fired = [k \in DOMAIN @ \cup {<<c, 1>>} |->
                                     IF k \in DOMAIN @ THEN @[k] ELSE 0]]

RECURSIVE stop_from(_, _)
\* the loop of MessageBusServer.stop (668-669): a for loop over the list
\* self.connections, which visits index i, i + 1, ... of the list as it is
\* when the index is reached
stop_from(w, i) ==
    LET next(v) ==
            IF i > Len(v.server.connections) THEN v
            ELSE stop_from(close(v, v.server.connections[i]), i + 1)
    IN  Only({next(v) : v \in {w}})

\* MessageBusServer.stop (665-669)
stop(w) == stop_from([w EXCEPT !.server.accepting = FALSE, !.server.stopped = TRUE], 1)

RECURSIVE call_matching(_, _, _, _)
\* the loop of MessageBusServer.call_method (655-657) from index i on
call_matching(w, client, callback, i) ==
    LET next(v) ==
            IF i > Len(v.server.connections) THEN v
            ELSE LET c == v.server.connections[i]
                 IN  IF client.none \/ fnmatch(v.conns[c].peer_name, client.val)
                     THEN call_matching(call_method(v, c, callback), client, callback, i + 1)
                     ELSE call_matching(v, client, callback, i + 1)
    IN  Only({next(v) : v \in {w}})

\* MessageBusServer.call_method (647-663), up to the point where the caller
\* waits for the reply
server_call_method(w, client) ==
    LET wid == Len(w.waiters) + 1
        w1 == [w EXCEPT !.waiters = Append(@, NewWaiter)]
    IN  WaiterGet(call_matching(w1, client, [kind |-> "waiter", waiter |-> wid], 1), wid)

RECURSIVE extract_messages(_)
\* the inner loop of _do_read (158-165) on the connection object cn (no trace
\* file is set): the connection after it, and whether find_message_end raised
extract_messages(cn) ==
    IF cn.inbuf = <<>> THEN [cn |-> cn, raised |-> FALSE]
    ELSE LET found == find_message_end(cn.inbuf)
         IN  IF found.kind = "raise" THEN [cn |-> cn, raised |-> TRUE]
             ELSE IF found.value = -1 THEN [cn |-> cn, raised |-> FALSE]
             ELSE extract_messages(
                    [cn EXCEPT !.incoming = Append(@, SubSeq(cn.inbuf, 1, found.value + 1)),
                               !.inbuf = SubSeq(cn.inbuf, found.value + 2, Len(cn.inbuf))])

\* the end of _do_read (188-189)
schedule_dispatch(w, c) ==
    IF w.conns[c].incoming # <<>>
    THEN create_callback(w, [fn |-> "dispatch", conn |-> c])
    ELSE w

RECURSIVE do_read(_, _, _)
\* MessageBusConnectionBase._do_read (153-189).  recvs are the outcomes of the
\* calls of socket.recv, in order: received text, "wouldblock", "error", or
\* "eof" (recv returns b''); with no outcome left the socket would block.  The
\* ValueError of find_message_end is not caught: it ends the pump pass.
do_read(w, c, recvs) ==
    LET x == extract_messages(w.conns[c])
        w1 == [w EXCEPT !.conns[c] = x.cn,
                        !.hist.arrived = @ \o SubSeq(x.cn.incoming,
                                                     Len(w.conns[c].incoming) + 1,
                                                     Len(x.cn.incoming))]
    IN  IF x.raised THEN Escapes(w1, "ValueError in _do_read")
        ELSE IF Len(x.cn.inbuf) > max_message_size THEN schedule_dispatch(close(w1, c), c)
        ELSE IF Len(x.cn.incoming) > max_incoming_messages
        THEN schedule_dispatch(
                 [w1 EXCEPT !.conns[c].read_event = FALSE,
                            !.conns[c].reading = FALSE,
                            !.hist.throttle = Append(@, [kind |-> "disabled",
                                                         queued |-> Len(x.cn.incoming),
                                                         before |-> w1.conns[c].read_event,
                                                         after |-> FALSE,
                                                         closed |-> FALSE])], c)
        ELSE IF recvs = <<>> \/ Head(recvs).kind = "wouldblock" THEN schedule_dispatch(w1, c)
        ELSE IF Head(recvs).kind \in {"error", "eof"} THEN schedule_dispatch(close(w1, c), c)
        ELSE do_read([w1 EXCEPT !.conns[c].inbuf = @ \o Head(recvs).buf], c, Tail(recvs))

\* the first n characters of buf
Take(buf, n) == SubSeq(buf, 1, IF n < Len(buf) THEN n ELSE Len(buf))

\* a send() after which the whole buffer is dropped, however little was taken
Drop_All(buf, n) == <<>>

\* buf without its first n characters
Drop(buf, n) == SubSeq(buf, (IF n < Len(buf) THEN n ELSE Len(buf)) + 1, Len(buf))

\* an end of _do_write that disables the write watch whatever is left to send
finish_write_AlwaysIdle(w, c) ==
    [w EXCEPT !.conns[c].write_event = FALSE, !.conns[c].writing = FALSE]

\* the end of _do_write (210-212)
finish_write(w, c) ==
    IF w.conns[c].outbuf = <<>>
    THEN [w EXCEPT !.conns[c].write_event = FALSE, !.conns[c].writing = FALSE]
    ELSE w

RECURSIVE do_write(_, _, _)
\* MessageBusConnectionBase._do_write (191-212).  sends are the outcomes of
\* the calls of socket.send, in order: the number of bytes taken (at most
\* those offered), "wouldblock" or "error"; with no outcome left the socket
\* would block.
do_write(w, c, sends) ==
    LET cn == w.conns[c]
    IN  IF cn.outbuf = <<>> /\ cn.outgoing = <<>> THEN finish_write(w, c)
        ELSE LET w1 == IF cn.outbuf = <<>>
                       THEN [w EXCEPT !.conns[c].outbuf = Head(cn.outgoing),
                                      !.conns[c].outgoing = Tail(cn.outgoing)]
                       ELSE w
             IN  IF sends = <<>> \/ Head(sends).kind = "wouldblock" THEN finish_write(w1, c)
                 ELSE IF Head(sends).kind = "error" THEN finish_write(close(w1, c), c)
                 ELSE do_write([w1 EXCEPT !.conns[c].outbuf = Drop(@, Head(sends).nbytes),
                                          !.hist.wire = @ \o Take(w1.conns[c].outbuf,
                                                                    Head(sends).nbytes)],
                               c, Tail(sends))

(***************************************************************************)
(* The handler registry (MessageBusHandler).  A handler function is given  *)
(* by its argspec; what its body does is a script: the calls it makes of   *)
(* early_response and delay_response, in order, and the way it ends.  The  *)
(* per-dispatch context self.local is a gevent local of the greenlet that  *)
(* runs the dispatch.  hist.last takes note, for the last request          *)
(* dispatched, of whether early_response or delay_response was called, of  *)
(* the replies the dispatcher enqueued itself (auto) and of all replies,   *)
(* of the message and the handler body, of whether the handler function    *)
(* was called, and of the replies sent.                                    *)
(***************************************************************************)
\* def ping(self): the one method, and the one signal handler, of the registry
PingArgspec == [nargs |-> 1, ndefaults |-> 0, varargs |-> FALSE]
methods == [ping |-> PingArgspec]
signal_handlers == [ping |-> PingArgspec]

HandlerSteps == {"early_response", "delay_response"}
HandlerEnds == {"return", "StructuredError", "Exception"}

\* _check_callable without the upper limit
check_callable_NoUpperLimit(argspec, args) ==
    Len(args) >= argspec.nargs - argspec.ndefaults - 1

\* MessageBusHandler._check_callable (484-499)
check_callable(argspec, args) ==
    LET minargs == argspec.nargs - argspec.ndefaults - 1
        maxargs == IF argspec.varargs THEN None
                   ELSE IF argspec.nargs # 0 THEN Some(argspec.nargs - 1)
                   ELSE Some(0)
    IN  Len(args) >= minargs /\ (maxargs.none \/ Len(args) <= maxargs.val)

\* message.get('params', ())
ParamsOf(message) == IF "params" \in DOMAIN message THEN message.params.list ELSE <<>>

\* send_method_return (274-281) and send_error (283-295) in reply to `message`
send_method_return(w, c, message) ==
    push_outgoing([w EXCEPT !.hist.last.replies = @ + 1,
                            !.hist.last.sent = Append(@, ReturnMessage(message.id.int))],
                  c, ReturnMessage(message.id.int))
send_error(w, c, message, code) ==
    push_outgoing([w EXCEPT !.hist.last.replies = @ + 1,
                            !.hist.last.sent = Append(@, ErrorMessage(message.id.int, code))],
                  c, ErrorMessage(message.id.int, code))

\* a reply the dispatcher sends of its own accord
auto(w) == [w EXCEPT !.hist.last.auto = @ + 1]

RECURSIVE run_handler(_, _, _, _, _)
\* the handler body runs its steps: the world after them, the response_sent
\* flag of the context, and the exception a step raised, if any.
\* early_response (561-571) and delay_response (573-582) raise RuntimeError
\* for a message without id.
run_handler(w, c, message, steps, response_sent) ==
    IF steps = <<>> THEN [w |-> w, response_sent |-> response_sent, raised |-> FALSE]
    ELSE IF "id" \notin DOMAIN message
    THEN [w |-> w, response_sent |-> response_sent, raised |-> TRUE]
    ELSE LET w1 == [w EXCEPT !.hist.last.early = TRUE]
         IN  IF Head(steps) = "early_response"
             THEN run_handler(send_method_return(w1, c, message), c, message, Tail(steps), TRUE)
             ELSE run_handler(w1, c, message, Tail(steps), TRUE)

\* MessageBusHandler._dispatch_method_call (501-530)
dispatch_method_call(w, c, message, body) ==
    LET name == message.method.str
    IN  IF name \notin DOMAIN methods THEN send_error(auto(w), c, message, "NotFound")
        ELSE IF ~check_callable(methods[name], ParamsOf(message))
        THEN send_error(auto(w), c, message, "InvalidCall")
        ELSE LET r == run_handler([w EXCEPT !.hist.last.invoked = TRUE], c, message,
                                  body.steps, FALSE)
             IN  IF ~r.raised /\ body.end = "StructuredError"
                 THEN send_error(auto(r.w), c, message, "Failed")
                 ELSE IF r.raised \/ body.end = "Exception"
                 THEN send_error(auto(r.w), c, message, "UncaughtException")
                 ELSE IF ~r.response_sent THEN send_method_return(auto(r.w), c, message)
                 ELSE r.w

\* a _dispatch_signal that answers with a signal of its own
dispatch_signal_Answers(w, c, message, body) == push_outgoing(w, c, SignalMessage)

\* MessageBusHandler._dispatch_signal (532-548): whatever the handler raises
\* is logged and dropped
dispatch_signal(w, c, message, body) ==
    LET name == message.method.str
    IN  IF name \notin DOMAIN signal_handlers THEN w
        ELSE IF ~check_callable(signal_handlers[name], ParamsOf(message)) THEN w
        ELSE run_handler([w EXCEPT !.hist.last.invoked = TRUE], c, message,
                         body.steps, FALSE).w

\* MessageBusHandler.dispatch (550-559), run by the greenlet that spawn started
handler_dispatch(w, c, message, body) ==
    LET w1 == [w EXCEPT !.hist.last = [early |-> FALSE, auto |-> 0, replies |-> 0,
                                       message |-> Some(message), body |-> Some(body),
                                       invoked |-> FALSE, sent |-> <<>>]]
    IN  IF "id" \in DOMAIN message /\ "method" \in DOMAIN message
        THEN dispatch_method_call(w1, c, message, body)
        ELSE IF "id" \notin DOMAIN message /\ "method" \in DOMAIN message
        THEN dispatch_signal(w1, c, message, body)
        ELSE w1

(***************************************************************************)
(* The dispatch context as an object.  self.local is created by the first  *)
(* dispatch as connection.Local(), for a MessageBusConnection a gevent     *)
(* local.local (399): an attribute set by one greenlet is an attribute of  *)
(* that greenlet's view only.  A handler function that suspends is given   *)
(* by the calls it makes before it suspends, the calls it makes after it   *)
(* is resumed, and the way it ends.  run_handler above is the handler that *)
(* never suspends: no other greenlet runs between its steps.               *)
(***************************************************************************)
\* a context object that is one for all greenlets
local_key_Shared(g) == 0

\* the view of self.local that greenlet g has
local_key(g) == g

\* self.local.<attr> = value, in greenlet g
local_set(w, g, attr, value) ==
    LET key == local_key(g)
        attrs == IF key \in DOMAIN w.local THEN w.local[key] ELSE <<>>
    IN  [w EXCEPT !.local = DictWith(@, key, DictWith(attrs, attr, value))]

\* MessageBusHandler.early_response (561-571) called in greenlet g: the
\* world after it, and whether it raised
early_response(w, g) ==
    LET context == w.local[local_key(g)]
    IN  IF "id" \notin DOMAIN context.message THEN [w |-> w, raised |-> TRUE]
        ELSE [w |-> local_set(send_method_return(w, context.connection, context.message),
                              g, "response_sent", TRUE),
              raised |-> FALSE]

\* MessageBusHandler.delay_response (573-582) called in greenlet g
delay_response(w, g) ==
    LET context == w.local[local_key(g)]
    IN  IF "id" \notin DOMAIN context.message THEN [w |-> w, raised |-> TRUE]
        ELSE [w |-> local_set(w, g, "response_sent", TRUE), raised |-> FALSE]

RECURSIVE run_steps(_, _, _)
\* the handler function, in greenlet g, makes the calls `steps` until one raises
run_steps(w, g, steps) ==
    IF steps = <<>> THEN [w |-> w, raised |-> FALSE]
    ELSE LET r == IF Head(steps) = "early_response" THEN early_response(w, g)
                  ELSE delay_response(w, g)
         IN  IF r.raised THEN r ELSE run_steps(r.w, g, Tail(steps))

\* the greenlet g, which dispatches `message` of connection c, has run as far
\* as `state`
greenlet_is(w, g, c, message, body, state) ==
    [w EXCEPT !.greenlets =
                  DictWith(@, g, [conn |-> c, message |-> message, body |-> body,
                                  state |-> state])]

\* the end of _dispatch_method_call (519-530) in greenlet g, the handler
\* having ended as `end` or with the exception of a step
handler_returns(w, g, c, message, end, raised) ==
    IF ~raised /\ end = "StructuredError" THEN send_error(w, c, message, "Failed")
    ELSE IF raised \/ end = "Exception" THEN send_error(w, c, message, "UncaughtException")
    ELSE IF ~w.local[local_key(g)].response_sent THEN send_method_return(w, c, message)
    ELSE w

\* MessageBusHandler.dispatch (550-559) and _dispatch_method_call (501-518)
\* in the new greenlet g, up to the point where the handler function
\* suspends.  A signal handler does not suspend.
handler_starts(w, g, c, message, body) ==
    LET w1 == local_set(local_set(w, g, "message", message), g, "connection", c)
        plain == [steps |-> body.before \o body.after, end |-> body.end]
    IN  IF "id" \in DOMAIN message /\ "method" \in DOMAIN message
        THEN IF message.method.str \notin DOMAIN methods
             THEN greenlet_is(send_error(w1, c, message, "NotFound"),
                              g, c, message, body, "done")
             ELSE IF ~check_callable(methods[message.method.str], ParamsOf(message))
             THEN greenlet_is(send_error(w1, c, message, "InvalidCall"),
                              g, c, message, body, "done")
             ELSE LET r == run_steps(local_set(w1, g, "response_sent", FALSE), g, body.before)
                  IN  IF r.raised
                      THEN greenlet_is(handler_returns(r.w, g, c, message, body.end, TRUE),
                                       g, c, message, body, "done")
                      ELSE greenlet_is(r.w, g, c, message, body, "suspended")
        ELSE IF "id" \notin DOMAIN message /\ "method" \in DOMAIN message
        THEN greenlet_is(dispatch_signal(w1, c, message, plain), g, c, message, body, "done")
        ELSE greenlet_is(w1, g, c, message, body, "done")

\* the suspended handler function of greenlet g is resumed and runs to its end
handler_resumes(w, g) ==
    LET greenlet == w.greenlets[g]
        r == run_steps(w, g, greenlet.body.after)
    IN  greenlet_is(handler_returns(r.w, g, greenlet.conn, greenlet.message,
                                    greenlet.body.end, r.raised),
                    g, greenlet.conn, greenlet.message, greenlet.body, "done")

(***************************************************************************)
(* The event loop and the environment: the steps of every specification.   *)
(***************************************************************************)
ConnIds == DOMAIN conns

\* the state after construction of the connections `cs` (a sequence of
\* connection objects), before anything ran
NewWorld(cs, accepted) ==
    [conns |-> cs,
     run_queue |-> <<>>,
     timers |-> {},
     waiters |-> <<>>,
     server |-> [connections |-> accepted, accepting |-> TRUE, stopped |-> FALSE],
     local |-> <<>>,
     greenlets |-> <<>>,
     hist |-> [errors |-> {}, popped |-> None, passes |-> 0, signals |-> 0,
               delivered |-> [k \in {} |-> <<>>],
               fired |-> [k \in {<<c, i>> : c \in DOMAIN cs, i \in 1..2} |-> 0],
               broadcast |-> <<>>, pushed |-> <<>>, wire |-> <<>>,
               arrived |-> <<>>, taken |-> <<>>, handed |-> <<>>, throttle |-> <<>>,
               last |-> [early |-> FALSE, auto |-> 0, replies |-> 0, message |-> None,
                         body |-> None, invoked |-> FALSE, sent |-> <<>>]]]

\* the variables are those of the world w
IsWorld(w) ==
    /\ conns = w.conns
    /\ run_queue = w.run_queue
    /\ timers = w.timers
    /\ waiters = w.waiters
    /\ server = w.server
    /\ local = w.local
    /\ greenlets = w.greenlets
    /\ hist = w.hist

InitWorld(cs, accepted) == IsWorld(NewWorld(cs, accepted))

RECURSIVE RunsUpTo(_, _)
\* the sequences over S of length at most n
RunsUpTo(S, n) ==
    IF n = 0 THEN {<<>>}
    ELSE {<<>>} \cup {<<x>> \o r : x \in S, r \in RunsUpTo(S, n - 1)}

DispatchPending(c) == \E i \in 1..Len(run_queue) : run_queue[i].conn = c

\* the read watch of connection c fires: one pass of the read pump.  The loop
\* runs its pending callbacks before it polls again, so no pass starts while
\* the dispatch scheduled by the last one is pending.
DoRead(c, scripts) ==
    /\ conns[c].read_event
    /\ ~DispatchPending(c)
    /\ hist.passes < MaxPasses
    /\ \E recvs \in scripts :
           Becomes(do_read([World EXCEPT !.hist.passes = @ + 1], c, recvs))
    /\ UNCHANGED scanVars

\* the write watch of connection c fires: one pass of the write pump
DoWrite(c, outcomes) ==
    /\ conns[c].write_event
    /\ \E sends \in RunsUpTo(outcomes, MaxSends) : Becomes(do_write(World, c, sends))
    /\ UNCHANGED scanVars

\* the world when the loop has taken its oldest deferred callback off the queue
Taken == [World EXCEPT !.run_queue = Tail(@)]

\* the loop runs its oldest deferred callback: the dispatch of a connection
RunDispatch ==
    /\ run_queue # <<>>
    /\ Head(run_queue).fn = "dispatch"
    /\ Becomes(dispatch(Taken, Head(run_queue).conn))
    /\ UNCHANGED scanVars

\* the loop runs its oldest deferred callback: the reply callback of a call
RunReplyCallback ==
    /\ run_queue # <<>>
    /\ Head(run_queue).fn = "method_return_callback"
    /\ LET entry == Head(run_queue)
       IN  Becomes(method_return_callback(Taken, entry.conn, entry.id, entry.callback,
                                          Some(entry.reply)))
    /\ UNCHANGED scanVars

\* the loop runs its oldest deferred callback: a handler greenlet, whose
\* handler function behaves as one of `bodies`
RunHandler(bodies) ==
    /\ run_queue # <<>>
    /\ Head(run_queue).fn = "handler.dispatch"
    /\ \E body \in bodies :
           Becomes(handler_dispatch(Taken, Head(run_queue).conn, Head(run_queue).message, body))
    /\ UNCHANGED scanVars

\* the loop runs its oldest deferred callback: a handler greenlet, whose
\* handler function behaves as one of `bodies` and suspends
StartHandler(bodies) ==
    /\ run_queue # <<>>
    /\ Head(run_queue).fn = "handler.dispatch"
    /\ \E body \in bodies :
           Becomes(handler_starts(Taken, Len(greenlets) + 1, Head(run_queue).conn,
                                  Head(run_queue).message, body))
    /\ UNCHANGED scanVars

\* what the handler function of greenlet g waited for has happened: the hub
\* switches to it
ResumeHandler(g) ==
    /\ g \in DOMAIN greenlets
    /\ greenlets[g].state = "suspended"
    /\ Becomes(handler_resumes(World, g))
    /\ UNCHANGED scanVars

\* the application calls close() on connection c
UserClose(c) ==
    /\ Becomes(close(World, c))
    /\ UNCHANGED scanVars

\* the application calls send_signal (297-302) on connection c
SendSignal(c) ==
    /\ hist.signals < MaxSignals
    /\ Becomes(push_outgoing([World EXCEPT !.hist.signals = @ + 1], c, SignalMessage))
    /\ UNCHANGED scanVars

\* the timer of call `id` on connection c fires (create_timer, 353): the loop
\* calls method_return_callback with no reply.  A fired timer is not armed.
TimerFire(c, id) ==
    /\ <<c, id>> \in timers
    /\ LET callback ==
               IF id \in DOMAIN conns[c].method_calls THEN conns[c].method_calls[id]
               ELSE [kind |-> "gone"]
       IN  Becomes(method_return_callback([World EXCEPT !.timers = @ \ {<<c, id>>}],
                                          c, id, callback, None))
    /\ UNCHANGED scanVars

\* the number of calls registered so far on connection c
Registered(c) == Cardinality({k \in DOMAIN hist.delivered : k[1] = c})

\* the application calls call_method without callback on an engine that does
\* not wait (MessageBusConnectionBase)
CallMethodNoCallback(c) ==
    /\ conns[c].next_serial <= MaxSerial
    /\ Becomes(call_method_unanswered(World, c))
    /\ UNCHANGED scanVars

\* the application calls call_method with a callback of its own on connection c
CallMethod(c) ==
    /\ Registered(c) < MaxCalls
    /\ conns[c].next_serial <= MaxSerial
    /\ Becomes(call_method(World, c, [kind |-> "user"]))
    /\ UNCHANGED scanVars

\* a greenlet of the application calls call_method without callback
CallMethodSync(c) ==
    /\ Registered(c) < MaxCalls
    /\ conns[c].next_serial <= MaxSerial
    /\ Becomes(call_method_sync(World, c))
    /\ UNCHANGED scanVars

\* the name of the peer of the k-th connection the server accepts
PeerName(k) == <<"a", "b", "c", "d">>[k]

\* a peer connects to the server
Accept ==
    /\ server.accepting
    /\ Len(conns) < MaxConns
    /\ Becomes(handle_connection(World, PeerName(Len(conns) + 1)))
    /\ UNCHANGED scanVars

\* the application calls stop() on the server
ServerStop ==
    /\ ~server.stopped
    /\ Becomes(stop(World))
    /\ UNCHANGED scanVars

\* a greenlet of the application calls call_method on the server, for all
\* clients (None) or for the clients matching a pattern
ServerCallMethod(clients) ==
    /\ Len(waiters) < MaxCalls
    /\ \E client \in clients : Becomes(server_call_method(World, client))
    /\ UNCHANGED scanVars

(***************************************************************************)
(* Specification SpecScan: find_message_end applied to every buffer over   *)
(* the alphabet of length at most MaxBufLen.                               *)
(***************************************************************************)
RECURSIVE SeqsUpTo(_, _)
SeqsUpTo(S, n) ==
    IF n = 0 THEN {<<>>}
    ELSE LET shorter == SeqsUpTo(S, n - 1)
         IN  shorter \cup {Append(q, x) : q \in {r \in shorter : Len(r) = n - 1}, x \in S}

InitScan ==
    /\ scan_buf \in SeqsUpTo(Alphabet, MaxBufLen)
    /\ scan_res = Pending
    /\ InitWorld(<<>>, <<>>)

CallScan ==
    /\ scan_res = Pending
    /\ scan_res' = find_message_end(scan_buf)
    /\ UNCHANGED <<scan_buf, worldVars>>

NextScan == CallScan

SpecScan == InitScan /\ [][NextScan]_vars

(***************************************************************************)
(* Well-formed top-level objects, built from the grammar and not by        *)
(* scanning: a string literal is a quote, a body of plain characters and   *)
(* backslash-escaped characters, and a quote; an object is "{", a run of   *)
(* plain characters, string literals and nested objects, and "}".          *)
(***************************************************************************)
StringPlain == Alphabet \ {Quote, Backslash}
ObjectPlain == Alphabet \ {LBrace, RBrace, Quote}

RECURSIVE StringBodies(_)
StringBodies(n) ==
    IF n <= 0 THEN {<<>>}
    ELSE {<<>>}
         \cup {<<c>> \o b : c \in StringPlain, b \in StringBodies(n - 1)}
         \cup (IF n < 2 THEN {}
               ELSE {<<Backslash, c>> \o b : c \in Alphabet, b \in StringBodies(n - 2)})

StringLiterals(n) ==
    IF n < 2 THEN {} ELSE {<<Quote>> \o b \o <<Quote>> : b \in StringBodies(n - 2)}

RECURSIVE ItemRuns(_), Objects(_)
ItemRuns(n) ==
    IF n <= 0 THEN {<<>>}
    ELSE {<<>>}
         \cup {<<c>> \o r : c \in ObjectPlain, r \in ItemRuns(n - 1)}
         \cup UNION {{l \o r : r \in ItemRuns(n - Len(l))} : l \in StringLiterals(n)}
         \cup UNION {{o \o r : r \in ItemRuns(n - Len(o))} : o \in Objects(n)}

Objects(n) ==
    IF n < 2 THEN {} ELSE {<<LBrace>> \o r \o <<RBrace>> : r \in ItemRuns(n - 2)}

WellFormedObjects == Objects(MaxBufLen)

\* the number of leading whitespace characters of buf
RECURSIVE LeadingSpace(_)
LeadingSpace(buf) ==
    IF buf = <<>> \/ ~isspace(Head(buf)) THEN 0 ELSE 1 + LeadingSpace(Tail(buf))

\* buf is whitespace, then a well-formed object of n characters, then any suffix
StartsWithObject(buf, n) ==
    /\ LeadingSpace(buf) + n <= Len(buf)
    /\ SubSeq(buf, LeadingSpace(buf) + 1, LeadingSpace(buf) + n) \in WellFormedObjects

\* a non-whitespace character other than "{" comes first
GarbageFirst(buf) ==
    /\ LeadingSpace(buf) < Len(buf)
    /\ buf[LeadingSpace(buf) + 1] # LBrace

\* C10: find_message_end returns the (0-based) index of the closing brace of
\* the first well-formed object of the buffer, whatever follows it and whatever
\* braces and escaped quotes its string literals hold; it returns -1 when the
\* buffer holds no complete object, and raises ValueError when a
\* non-whitespace character precedes the first "{".
C10_FindMessageEnd ==
    scan_res # Pending =>
        /\ \A n \in 1..Len(scan_buf) :
               StartsWithObject(scan_buf, n) =>
                   scan_res = Return(LeadingSpace(scan_buf) + n - 1)
        /\ GarbageFirst(scan_buf) => scan_res = RaiseValueError
        /\ (~GarbageFirst(scan_buf)
              /\ \A n \in 1..Len(scan_buf) : ~StartsWithObject(scan_buf, n))
               => scan_res = Return(-1)

\* the buffer {"\""} : a string literal holding an escaped quote; and {"}"} a
\* closing brace inside a string literal, followed by the start of a next object
C10_Witness ==
    \/ scan_buf = <<LBrace, Quote, Backslash, Quote, Quote, RBrace>> /\ scan_res = Return(5)
    \/ scan_buf = <<LBrace, Quote, RBrace, Quote, RBrace, LBrace>> /\ scan_res = Return(4)

(***************************************************************************)
(* Specification Spec: one client connection with two lifecycle callbacks, *)
(* its read pump fed with well-formed, ill-shaped and malformed input, its *)
(* write pump, and close() from the application.                           *)
(***************************************************************************)
Frame(members) == <<LBrace>> \o members \o <<RBrace>>

RequestFrame == Frame(<<"j", "1", "m">>)          \* id and method
BareFrame == Frame(<<"j">>)                       \* the envelope and nothing else
ResultNoIdFrame == Frame(<<"j", "r">>)            \* result without id
BothFrame == Frame(<<"j", "1", "r", "e">>)        \* result and error
WrongVersionFrame == Frame(<<"v", "1", "m">>)     \* jsonrpc is not "2.0"
NoObjectFrame == Frame(<<Letter>>)                \* does not decode
\* the two halves of a request; the second alone is malformed framing, and
\* copies of the first alone outgrow max_message_size
RequestHead == <<Space, LBrace, "j", "1">>
RequestTail == <<"m", RBrace>>

Data(buf) == [kind |-> "data", buf |-> buf]

ReadOutcomes ==
    {Data(RequestFrame), Data(BareFrame), Data(ResultNoIdFrame), Data(BothFrame),
     Data(WrongVersionFrame), Data(NoObjectFrame), Data(RequestHead), Data(RequestTail),
     [kind |-> "eof"], [kind |-> "error"]}

\* send() takes everything offered, or fails
WholeSends == {[kind |-> "sent", nbytes |-> 100], [kind |-> "error"]}

Init ==
    /\ scan_buf = <<>>
    /\ scan_res = Pending
    /\ InitWorld(<<NewConnection("peer", TRUE, <<"observer", "closer">>)>>, <<>>)

\* the handler function returns "ok"
PlainBody == [steps |-> <<>>, end |-> "return"]

Next ==
    \/ DoRead(1, RunsUpTo(ReadOutcomes, MaxRecvs))
    \/ DoWrite(1, WholeSends)
    \/ RunDispatch
    \/ RunHandler({PlainBody})
    \/ UserClose(1)

Spec == Init /\ [][Next]_vars

\* C3: close() is idempotent.  Whatever closes the connection (the
\* application, a lifecycle callback that calls close() again, the read pump,
\* the write pump) and however often, every registered lifecycle callback is
\* told ConnectionClosed exactly once, and not before the connection is
\* closed; as the count of an event never goes down, the closed flag never
\* returns to false.
C3_CloseIdempotent ==
    \A c \in DOMAIN conns : \A i \in 1..Len(conns[c].callbacks) :
        hist.fired[<<c, i>>] = (IF conns[c].closed THEN 1 ELSE 0)

\* closed by the read pump on EOF, the callback "closer" having called close()
\* again from inside the ConnectionClosed event
C3_Witness ==
    /\ conns[1].closed
    /\ conns[1].callbacks[2] = "closer"
    /\ hist.fired[<<1, 2>>] = 1
    /\ hist.passes = 1

ValidShape(message) ==
    \/ "id" \in DOMAIN message /\ "method" \in DOMAIN message
    \/ /\ "id" \in DOMAIN message
       /\ ("result" \in DOMAIN message) # ("error" \in DOMAIN message)
    \/ "id" \notin DOMAIN message /\ "method" \in DOMAIN message

\* C22: an open connection whose read watch is disabled has a dispatch
\* pending, which will re-enable the watch or close the connection.
C22_ThrottledNeverStalls ==
    (~conns[1].closed /\ ~conns[1].read_event) => DispatchPending(1)

\* C8: a decoded inbound message that is neither a request, a response nor a
\* signal causes the connection to close: when the last message taken off the
\* inbound queue decoded to such a shape, the connection is closed.
C8_InvalidShapeCloses ==
    (~hist.popped.none /\ ~ValidShape(hist.popped.val)) => conns[1].closed

\* C9: malformed framing is fatal: an inbound buffer whose first
\* non-whitespace character is not "{" is never left with an open connection;
\* the pump pass that met it has set the closed flag, disabled both watches
\* and fired ConnectionClosed.
C9_MalformedFramingCloses ==
    GarbageFirst(conns[1].inbuf) =>
        /\ conns[1].closed
        /\ ~conns[1].read_event
        /\ ~conns[1].write_event
        /\ hist.fired[<<1, 1>>] = 1

(***************************************************************************)
(* Specification SpecCall: one client connection without handler, on which *)
(* the application makes calls with a callback of its own and calls that   *)
(* wait, while replies arrive, timers fire and the connection is closed.   *)
(* SpecCallFair adds what the event loop guarantees: a deferred callback   *)
(* is run, and an armed timer fires.                                       *)
(***************************************************************************)
ResultFrame(id) == Frame(<<"j", CharOfId(id), "r">>)
ErrorFrame(id) == Frame(<<"j", CharOfId(id), "e">>)

\* what one recv() brings: the result of a call, the error of call 1, the
\* results of calls 2 and 1 together, a result without id followed by the
\* result of call 1
CallChunks ==
    {ResultFrame(id) : id \in 1..MaxCalls}
    \cup {ErrorFrame(1), ResultFrame(2) \o ResultFrame(1), ResultNoIdFrame \o ResultFrame(1)}

\* a pass of the read pump: one recv() with data and then EWOULDBLOCK, or EOF
CallScripts == {<<Data(buf)>> : buf \in CallChunks} \cup {<<[kind |-> "eof"]>>}

InitCall ==
    /\ scan_buf = <<>>
    /\ scan_res = Pending
    /\ InitWorld(<<NewConnection("peer", FALSE, <<"observer">>)>>, <<>>)

NextCall ==
    \/ CallMethod(1)
    \/ CallMethodSync(1)
    \/ DoRead(1, CallScripts)
    \/ RunDispatch
    \/ RunReplyCallback
    \/ \E id \in 1..MaxCalls : TimerFire(1, id)
    \/ UserClose(1)

SpecCall == InitCall /\ [][NextCall]_vars

SpecCallFair ==
    /\ SpecCall
    /\ WF_vars(RunDispatch)
    /\ WF_vars(RunReplyCallback)
    /\ \A id \in 1..MaxCalls : WF_vars(TimerFire(1, id))

\* C1: every call_method that registers a reply callback leads to exactly one
\* call of that callback, whatever the order of reply, timer and close: the
\* callback of no call is ever called twice, and once a call is registered
\* its callback is eventually called (the loop runs its deferred callbacks
\* and every armed timer fires).
C1_ExactlyOnce ==
    /\ [](\A k \in DOMAIN hist.delivered : Len(hist.delivered[k]) <= 1)
    /\ \A id \in 1..MaxCalls :
           (<<1, id>> \in DOMAIN hist.delivered)
               ~> (<<1, id>> \in DOMAIN hist.delivered /\ Len(hist.delivered[<<1, id>>]) = 1)

\* the reply of call 1 was dispatched, its timer fired before the deferred
\* reply callback ran, the callback was called once, the connection is closed
C1_Witness ==
    /\ "KeyError in method_return_callback" \in hist.errors
    /\ <<1, 1>> \in DOMAIN hist.delivered
    /\ Len(hist.delivered[<<1, 1>>]) = 1
    /\ conns[1].closed

\* C2: in every state where the connection is closed its call table is empty
\* and no caller is blocked waiting for a reply on it.
C2_CloseEmptiesCallTable ==
    conns[1].closed =>
        /\ DOMAIN conns[1].method_calls = {}
        /\ \A i \in 1..Len(waiters) : ~waiters[i].greenlet

\* C23: a timer never fires for a call that is no longer in the call table:
\* the removal in the timeout branch of method_return_callback never raises
\* KeyError.
C23_TimeoutFindsEntry == "KeyError in method_return_callback" \notin hist.errors

\* C15: a timer that fires while its call is in the call table gives the
\* caller's callback the error response "Timeout" with the call's id and
\* removes the entry; the callback of a timed-out call has been called with
\* that response only, and nothing is pending for it; a dispatch that takes
\* only replies to timed-out calls calls no callback, defers none, raises
\* nothing and leaves the connection as it was.
C15_TimeoutThenLateReply ==
    /\ [](\A k \in DOMAIN hist.delivered :
              (/\ hist.delivered[k] # <<>>
               /\ hist.delivered[k][1] = ErrorMessage(k[2], "Timeout"))
                  => /\ hist.delivered[k] = <<ErrorMessage(k[2], "Timeout")>>
                     /\ k[2] \notin DOMAIN conns[1].method_calls
                     /\ \A i \in 1..Len(run_queue) :
                            run_queue[i].fn = "method_return_callback" => run_queue[i].id # k[2])
    /\ [][/\ \A id \in 1..MaxSerial :
                 (/\ <<1, id>> \in timers
                  /\ <<1, id>> \notin timers'
                  /\ id \in DOMAIN conns[1].method_calls)
                     => /\ hist'.delivered[<<1, id>>]
                               = Append(hist.delivered[<<1, id>>], ErrorMessage(id, "Timeout"))
                        /\ id \notin DOMAIN conns'[1].method_calls
          /\ LET newly == SubSeq(hist'.taken, Len(hist.taken) + 1, Len(hist'.taken))
                 TimedOut(id) ==
                     /\ <<1, id>> \in DOMAIN hist.delivered
                     /\ hist.delivered[<<1, id>>] = <<ErrorMessage(id, "Timeout")>>
                 Late(frame) ==
                     \E id \in 1..MaxSerial :
                         TimedOut(id) /\ frame \in {ResultFrame(id), ErrorFrame(id)}
             IN  (newly # <<>> /\ \A i \in 1..Len(newly) : Late(newly[i]))
                     => /\ hist'.delivered = hist.delivered
                        /\ hist'.errors = hist.errors
                        /\ run_queue' = Tail(run_queue)
                        /\ waiters' = waiters
                        /\ conns'[1].closed = conns[1].closed
                        /\ conns'[1].method_calls = conns[1].method_calls]_vars

\* call 1 timed out, its result arrived afterwards and was taken off the
\* queue; the connection is open and nothing was raised
C15_Witness ==
    /\ <<1, 1>> \in DOMAIN hist.delivered
    /\ hist.delivered[<<1, 1>>] = <<ErrorMessage(1, "Timeout")>>
    /\ hist.taken = <<ResultFrame(1)>>
    /\ run_queue = <<>>
    /\ hist.errors = {}
    /\ ~conns[1].closed

(***************************************************************************)
(* Specification SpecServer: a server that accepts up to MaxConns          *)
(* connections, makes fan-out calls and is stopped, while replies arrive,  *)
(* timers fire and peers disconnect.                                       *)
(***************************************************************************)
InitServer ==
    /\ scan_buf = <<>>
    /\ scan_res = Pending
    /\ InitWorld(<<>>, <<>>)

\* the argument `client` of call_method: everybody, one peer, nobody
Clients == {None, Some("a"), Some("z")}

\* a pass of the read pump of a server connection: a result or an error for
\* call 1, or EOF
ServerScripts ==
    {<<Data(ResultFrame(1))>>, <<Data(ErrorFrame(1))>>, <<[kind |-> "eof"]>>}

NextServer ==
    \/ Accept
    \/ ServerStop
    \/ ServerCallMethod(Clients)
    \/ \E c \in ConnIds : DoRead(c, ServerScripts)
    \/ RunDispatch
    \/ RunReplyCallback
    \/ \E c \in ConnIds : \E id \in 1..MaxCalls : TimerFire(c, id)

SpecServer == InitServer /\ [][NextServer]_vars

\* C4: after stop() has returned, every accepted connection is closed, the
\* server's connection list is empty and, if a connection was ever accepted,
\* LastConnectionClosed has been broadcast.
C4_StopClosesAll ==
    server.stopped =>
        /\ \A c \in ConnIds : conns[c].closed
        /\ server.connections = <<>>
        /\ (Len(conns) >= 1 =>
               \E i \in 1..Len(hist.broadcast) :
                   hist.broadcast[i] = <<"LastConnectionClosed", 0>>)

\* C14: the server's connection list holds, once each, exactly the accepted
\* connections that are open; a step broadcasts LastConnectionClosed once if
\* it takes the list from non-empty to empty, and not at all otherwise.
C14_ConnectionList ==
    /\ [](/\ {server.connections[i] : i \in 1..Len(server.connections)}
                = {c \in ConnIds : ~conns[c].closed}
          /\ Len(server.connections) = Cardinality({c \in ConnIds : ~conns[c].closed}))
    /\ [][LET Last(log) ==
                  Len(SelectSeq(log, LAMBDA event : event[1] = "LastConnectionClosed"))
          IN  Last(hist'.broadcast) - Last(hist.broadcast)
                  = IF server.connections # <<>> /\ server'.connections = <<>> THEN 1 ELSE 0]_vars

\* the list emptied twice: a peer disconnected, another connected and the
\* server was stopped
C14_Witness ==
    /\ Len(conns) = 2
    /\ server.stopped
    /\ server.connections = <<>>
    /\ hist.broadcast = << <<"ConnectionClosed", 1>>, <<"LastConnectionClosed", 0>>,
                           <<"ConnectionClosed", 2>>, <<"LastConnectionClosed", 0>> >>

\* SpecServer with what the event loop guarantees: a deferred callback is
\* run, and an armed timer fires
SpecServerFair ==
    /\ SpecServer
    /\ WF_vars(RunDispatch)
    /\ WF_vars(RunReplyCallback)
    /\ \A c \in 1..MaxConns : \A id \in 1..MaxCalls : WF_vars(TimerFire(c, id))

\* C24: the caller of a fan-out call is eventually resumed or has its reply
\* at once: it does not wait for ever.
C24_FanOutTerminates ==
    \A wid \in 1..MaxCalls :
        (Len(waiters) >= wid) ~> (Len(waiters) >= wid /\ ~waiters[wid].greenlet)

\* C5: the caller of a fan-out call is resumed at most once; it is resumed
\* as soon as a reply or timeout reaches the rendezvous, and what it gets is
\* the first of them, whatever reaches the rendezvous later.
C5_FirstResponseWins ==
    \A wid \in 1..Len(waiters) :
        LET waiter == waiters[wid]
        IN  /\ waiter.resumed <= 1
            /\ waiter.switched = <<>> => (waiter.resumed = 0 /\ waiter.got.none)
            /\ waiter.switched # <<>> =>
                   /\ waiter.resumed = 1
                   /\ ~waiter.greenlet
                   /\ waiter.got = Some(waiter.switched[1])

\* a call to two connections: the result of one was returned to the caller,
\* then the timer of the other fired
C5_Witness ==
    /\ Len(waiters) >= 1
    /\ Len(waiters[1].switched) = 2
    /\ CallerOutcome(waiters[1].switched[1]) = [kind |-> "return", value |-> "ok"]
    /\ CallerOutcome(waiters[1].switched[2]) = [kind |-> "raise MessageBusError", value |-> "Timeout"]
    /\ waiters[1].got = Some(waiters[1].switched[1])

(***************************************************************************)
(* Specification SpecHandler: one connection with a handler; requests and  *)
(* signals arrive, and the handler function called for them behaves in     *)
(* every way a handler can: it calls early_response or delay_response or   *)
(* neither, and then returns, raises a StructuredError or raises another   *)
(* exception.                                                              *)
(***************************************************************************)
SignalFrame == Frame(<<"j", "m">>)
UnknownMethodFrame == Frame(<<"j", "1", "n">>)
WrongArgsFrame == Frame(<<"j", "1", "m", "q">>)

\* a request, a signal, a request and a signal of an unknown name, a request
\* and a signal with one argument too many, a request followed by a signal
HandlerScripts ==
    {<<Data(buf)>> : buf \in {RequestFrame, SignalFrame, UnknownMethodFrame, WrongArgsFrame,
                              Frame(<<"j", "n">>), Frame(<<"j", "m", "q">>),
                              RequestFrame \o SignalFrame}}

Bodies == {[steps |-> steps, end |-> end] : steps \in RunsUpTo(HandlerSteps, MaxSteps),
                                            end \in HandlerEnds}

InitHandler ==
    /\ scan_buf = <<>>
    /\ scan_res = Pending
    /\ InitWorld(<<NewConnection("peer", TRUE, <<"observer">>)>>, <<>>)

NextHandler ==
    \/ DoRead(1, HandlerScripts)
    \/ RunDispatch
    \/ RunHandler(Bodies)
    \/ DoWrite(1, WholeSends)
    \/ UserClose(1)

SpecHandler == InitHandler /\ [][NextHandler]_vars

\* C6: when the handler of a request has called early_response or
\* delay_response, the dispatcher sends no reply of its own for that request,
\* however the handler ends.
C6_NoAutomaticReplyAfterEarly == hist.last.early => hist.last.auto = 0

\* C18: the dispatch of a request replies NotFound when the method is not
\* registered and InvalidCall when the number of arguments is outside the range
\* from the handler's required to its total parameters, in both cases without
\* calling the handler; it replies with the handler's own error when the
\* handler raises a StructuredError, with UncaughtException when it raises
\* anything else, and with the result when the handler returns (and has not
\* called early_response or delay_response); check_callable accepts exactly
\* the argument counts of that range; and no dispatch closes the connection.
C18_DispatchErrors ==
    /\ [](\A nargs \in 1..3 : \A ndefaults \in 0..(nargs - 1) : \A n \in 0..3 :
              /\ check_callable([nargs |-> nargs, ndefaults |-> ndefaults, varargs |-> FALSE],
                                [i \in 1..n |-> "x"])
                     = (n \in (nargs - 1 - ndefaults)..(nargs - 1))
              /\ check_callable([nargs |-> nargs, ndefaults |-> ndefaults, varargs |-> TRUE],
                                [i \in 1..n |-> "x"])
                     = (n >= nargs - 1 - ndefaults))
    /\ [](LET last == hist.last
              message == last.message.val
              id == message.id.int
              name == message.method.str
              nparams == Len(ParamsOf(message))
              InRange(argspec) ==
                  /\ nparams >= argspec.nargs - 1 - argspec.ndefaults
                  /\ argspec.varargs \/ nparams <= argspec.nargs - 1
          IN  (~last.message.none /\ "id" \in DOMAIN message /\ "method" \in DOMAIN message)
                  => IF name \notin DOMAIN methods
                     THEN last.sent = <<ErrorMessage(id, "NotFound")>> /\ ~last.invoked
                     ELSE IF ~InRange(methods[name])
                     THEN last.sent = <<ErrorMessage(id, "InvalidCall")>> /\ ~last.invoked
                     ELSE /\ last.invoked
                          /\ last.body.val.end = "StructuredError"
                                 => /\ last.sent # <<>>
                                    /\ last.sent[Len(last.sent)] = ErrorMessage(id, "Failed")
                          /\ last.body.val.end = "Exception"
                                 => /\ last.sent # <<>>
                                    /\ last.sent[Len(last.sent)]
                                           = ErrorMessage(id, "UncaughtException")
                          /\ last.body.val.steps = <<>>
                                 => /\ Len(last.sent) = 1
                                    /\ last.body.val.end = "return"
                                           => last.sent = <<ReturnMessage(id)>>)
    /\ [][(/\ run_queue # <<>>
           /\ Head(run_queue).fn = "handler.dispatch"
           /\ run_queue' = Tail(run_queue))
              => /\ conns'[1].closed = conns[1].closed
                 /\ hist'.errors = hist.errors]_vars

\* a request with one argument too many was answered InvalidCall, the handler
\* was not called and the connection is open
C18_Witness ==
    /\ hist.last.message = try_loads(WrongArgsFrame)
    /\ hist.last.sent = <<ErrorMessage(1, "InvalidCall")>>
    /\ ~hist.last.invoked
    /\ ~conns[1].closed
    /\ conns[1].outgoing = <<dumps(ErrorMessage(1, "InvalidCall"))>>

\* C19: the dispatch of a signal sends nothing and enqueues nothing, whether
\* the name is unknown, the number of arguments wrong, or the handler raises
\* or calls early_response or delay_response.
C19_SignalsNeverAnswered ==
    /\ []((~hist.last.message.none /\ "id" \notin DOMAIN hist.last.message.val)
              => (hist.last.sent = <<>> /\ hist.last.replies = 0))
    /\ [][(/\ run_queue # <<>>
           /\ Head(run_queue).fn = "handler.dispatch"
           /\ "id" \notin DOMAIN Head(run_queue).message
           /\ run_queue' = Tail(run_queue))
              => /\ hist'.pushed = hist.pushed
                 /\ conns'[1].outgoing = conns[1].outgoing
                 /\ conns'[1].outbuf = conns[1].outbuf
                 /\ conns'[1].write_event = conns[1].write_event]_vars

\* the handler of a signal called early_response and raised; nothing was sent
C19_Witness ==
    /\ hist.last.message = try_loads(SignalFrame)
    /\ hist.last.invoked
    /\ hist.last.body = Some([steps |-> <<"early_response">>, end |-> "Exception"])
    /\ hist.pushed = <<>>

\* C20: a closed connection stays closed with both watches disabled; from
\* then on no byte is received or sent, whatever is given to push_outgoing.
C20_ClosedIsSilent ==
    /\ [](conns[1].closed => (~conns[1].read_event /\ ~conns[1].write_event))
    /\ [][conns[1].closed
              => /\ conns'[1].closed
                 /\ hist'.wire = hist.wire
                 /\ conns'[1].outbuf = conns[1].outbuf
                 /\ conns'[1].inbuf = conns[1].inbuf
                 /\ hist'.arrived = hist.arrived]_vars

\* the write pump found nothing to send and went idle, the connection was
\* closed, and a handler still running then replied: the reply is queued,
\* the write watch is off and nothing is on the wire
C20_Witness ==
    /\ conns[1].closed
    /\ ~conns[1].writing
    /\ conns[1].outgoing # <<>>
    /\ hist.wire = <<>>
    /\ hist.last.sent # <<>>

(***************************************************************************)
(* Specification SpecIds: one connection on which calls with and without   *)
(* a reply callback are made in any order, while replies arrive, timers    *)
(* fire and the connection is closed.  Nothing is written, so the outbound *)
(* queue lists the calls made.                                             *)
(***************************************************************************)
NextIds ==
    \/ CallMethod(1)
    \/ CallMethodNoCallback(1)
    \/ DoRead(1, CallScripts)
    \/ RunDispatch
    \/ RunReplyCallback
    \/ \E id \in 1..MaxSerial : TimerFire(1, id)
    \/ UserClose(1)

SpecIds == InitCall /\ [][NextIds]_vars

\* the id of the i-th message of the outbound queue
\* C11: the calls made on a connection carry the ids 1, 2, 3, ... in the
\* order they were made, with or without callback; the call table and the
\* timers only hold ids already allocated; and a step that adds an entry to
\* the call table adds it for the id just allocated, which was never
\* registered before and is larger than every id of the table.
C11_IdsIncrease ==
    /\ [](/\ conns[1].next_serial = Len(conns[1].outgoing) + 1
          /\ \A i \in 1..Len(conns[1].outgoing) : try_loads(conns[1].outgoing[i]).val.id.int = i
          /\ DOMAIN conns[1].method_calls \subseteq 1..(conns[1].next_serial - 1)
          /\ \A k \in timers : k[2] \in 1..(conns[1].next_serial - 1))
    /\ [][/\ conns'[1].next_serial >= conns[1].next_serial
          /\ \A id \in DOMAIN conns'[1].method_calls \ DOMAIN conns[1].method_calls :
                 /\ id = conns[1].next_serial
                 /\ conns'[1].next_serial = id + 1
                 /\ <<1, id>> \notin DOMAIN hist.delivered
                 /\ \A other \in DOMAIN conns[1].method_calls : other < id]_vars

\* call 1 was made without callback, call 2 with one, and call 2 is outstanding
C11_Witness ==
    /\ conns[1].next_serial = 3
    /\ DOMAIN conns[1].method_calls = {2}
    /\ <<1, 1>> \notin DOMAIN hist.delivered

(***************************************************************************)
(* Specification SpecWrite: one connection on which the application        *)
(* pushes signals and calls while the write pump runs; send() takes one    *)
(* byte, a few bytes or everything, would block, or fails.  hist.pushed    *)
(* lists the serialized messages given to push_outgoing, hist.wire the     *)
(* bytes send() took.                                                      *)
(***************************************************************************)
PartialSends ==
    {[kind |-> "sent", nbytes |-> 1], [kind |-> "sent", nbytes |-> 4],
     [kind |-> "sent", nbytes |-> 100], [kind |-> "wouldblock"], [kind |-> "error"]}

NextWrite ==
    \/ SendSignal(1)
    \/ CallMethodNoCallback(1)
    \/ DoWrite(1, PartialSends)
    \/ UserClose(1)

SpecWrite == InitCall /\ [][NextWrite]_vars

\* C12: the bytes put on the wire, followed by the unsent rest of the write
\* buffer and by the messages still queued, are the serialized messages in
\* the order they were pushed: no reordering, no loss, no duplication.
C12_OutboundOrder ==
    LET RECURSIVE Concat(_)
        Concat(texts) == IF texts = <<>> THEN <<>> ELSE Head(texts) \o Concat(Tail(texts))
    IN  hist.wire \o conns[1].outbuf \o Concat(conns[1].outgoing) = Concat(hist.pushed)

\* two messages were pushed; the first is on the wire and the second partly
C12_Witness ==
    /\ Len(hist.pushed) = 2
    /\ hist.pushed[1] # hist.pushed[2]
    /\ Len(hist.wire) > Len(hist.pushed[1])
    /\ conns[1].outbuf # <<>>

\* SpecWrite with a socket that keeps becoming writable: a pass of the write
\* pump in which send() takes a byte happens as long as it can
SpecWriteFair ==
    /\ SpecWrite
    /\ WF_vars(DoWrite(1, {[kind |-> "sent", nbytes |-> 1]}))

\* C21: while the connection is open and the write buffer or the outbound
\* queue is not empty, the write watch is enabled; the _writing flag of an
\* open connection tells the state of the watch; and the k-th message pushed
\* is eventually on the wire in full, unless the connection is closed.
C21_NoLostWakeup ==
    /\ [](~conns[1].closed =>
              /\ conns[1].writing = conns[1].write_event
              /\ (conns[1].outbuf # <<>> \/ conns[1].outgoing # <<>>) => conns[1].write_event)
    /\ \A k \in 1..(MaxSignals + MaxSerial) :
           (Len(hist.pushed) >= k)
               ~> (\/ conns[1].closed
                   \/ LET RECURSIVE Concat(_)
                          Concat(texts) ==
                              IF texts = <<>> THEN <<>>
                              ELSE Head(texts) \o Concat(Tail(texts))
                      IN  /\ Len(hist.pushed) >= k
                          /\ Len(hist.wire) >= Len(Concat(SubSeq(hist.pushed, 1, k))))

\* the write pump went idle, two messages were pushed and both are on the
\* wire in full; the pump is idle again
C21_Witness ==
    /\ ~conns[1].closed
    /\ Len(hist.pushed) = 2
    /\ hist.wire = hist.pushed[1] \o hist.pushed[2]
    /\ ~conns[1].write_event
    /\ ~conns[1].writing

(***************************************************************************)
(* Specification SpecOrder: one connection with a handler, on which calls  *)
(* are made; requests, signals, responses and invalid messages arrive in   *)
(* any order.  hist.arrived lists the frames the read pump queued,         *)
(* hist.taken the frames pop_incoming took off the queue, hist.handed the  *)
(* messages dispatch handed on: to a handler greenlet (spawn) or to the    *)
(* deferred reply callback of a call.                                      *)
(***************************************************************************)
OrderOutcomes ==
    {Data(RequestFrame \o SignalFrame), Data(UnknownMethodFrame), Data(ResultFrame(1)),
     Data(ResultNoIdFrame), Data(NoObjectFrame), [kind |-> "eof"]}

InitOrder ==
    /\ scan_buf = <<>>
    /\ scan_res = Pending
    /\ InitWorld(<<NewConnection("peer", TRUE, <<"observer">>)>>, <<>>)

NextOrder ==
    \/ CallMethod(1)
    \/ DoRead(1, RunsUpTo(OrderOutcomes, MaxRecvs))
    \/ RunDispatch
    \/ RunHandler({PlainBody})
    \/ RunReplyCallback
    \/ \E id \in 1..MaxSerial : TimerFire(1, id)

SpecOrder == InitOrder /\ [][NextOrder]_vars

\* C13: the frames taken off the inbound queue, followed by those still
\* queued, are the frames in the order they arrived; the messages handed on
\* are, in that order, among the frames taken; every request and signal
\* taken is handed on; and the loop runs what was handed on in that order.
C13_InboundOrder ==
    LET RECURSIVE IsSubseq(_, _)
        \* the messages of a are, in order, among the decoded frames of b
        IsSubseq(a, b) ==
            \/ a = <<>>
            \/ /\ b # <<>>
               /\ IF try_loads(Head(b)) = Some(Head(a)) THEN IsSubseq(Tail(a), Tail(b))
                  ELSE IsSubseq(a, Tail(b))
        \* a frame that decodes to a request or signal with a valid envelope
        IsCallFrame(frame) ==
            LET m == try_loads(frame)
            IN  /\ ~m.none
                /\ check_message(m.val)
                /\ "method" \in DOMAIN m.val
                /\ "result" \notin DOMAIN m.val /\ "error" \notin DOMAIN m.val
        IsCall(message) == "method" \in DOMAIN message
        calls == SelectSeq(hist.taken, IsCallFrame)
        \* the handler greenlets and reply callbacks the loop has still to
        \* run, in the order it will run them
        pending == SelectSeq(run_queue, LAMBDA entry : entry.fn # "dispatch")
        PendingMessages ==
            [i \in 1..Len(pending) |->
                IF pending[i].fn = "handler.dispatch" THEN pending[i].message
                ELSE pending[i].reply]
    IN  /\ hist.taken \o conns[1].incoming = hist.arrived
        /\ IsSubseq(hist.handed, hist.taken)
        /\ SelectSeq(hist.handed, IsCall) = [i \in 1..Len(calls) |-> try_loads(calls[i]).val]
        /\ Len(PendingMessages) <= Len(hist.handed)
        /\ PendingMessages = SubSeq(hist.handed, Len(hist.handed) - Len(PendingMessages) + 1,
                                    Len(hist.handed))

\* a response, a request and a signal arrived and were handed on in that
\* order, and the connection is open
C13_Witness ==
    /\ ~conns[1].closed
    /\ Len(hist.handed) = 3
    /\ "result" \in DOMAIN hist.handed[1]
    /\ "id" \in DOMAIN hist.handed[2] /\ "method" \in DOMAIN hist.handed[2]
    /\ "id" \notin DOMAIN hist.handed[3]

SuspendingBodies ==
    LET calls == {<<>>} \cup {<<step>> : step \in HandlerSteps}
    IN  {[before |-> before, after |-> after, end |-> end] :
            before \in calls, after \in calls, end \in HandlerEnds}

\* the worlds after the read pumps queued the requests
InitLocal ==
    LET fresh == NewWorld(<<NewConnection("a", TRUE, <<"observer">>),
                            NewConnection("b", TRUE, <<"observer">>)>>, <<>>)
    IN  /\ scan_buf = <<>>
        /\ scan_res = Pending
        /\ \/ IsWorld(do_read(fresh, 1,
                           <<Data(RequestFrame \o Frame(<<"j", CharOfId(2), "m">>))>>))
           \/ IsWorld(do_read(do_read(fresh, 1, <<Data(RequestFrame)>>),
                              2, <<Data(RequestFrame)>>))

NextLocal ==
    \/ RunDispatch
    \/ StartHandler(SuspendingBodies)
    \/ \E g \in 1..2 : ResumeHandler(g)

SpecLocal == InitLocal /\ [][NextLocal]_vars

\* C17: whatever the order in which the handler greenlets start and resume,
\* the replies to each request, on its connection and in order, are those
\* that the dispatch of that request produces when it runs alone; and every
\* reply on a connection carries the id of a request of that connection.
C17_ContextsIsolated ==
    LET Replies(c, id) ==
            SelectSeq(conns[c].outgoing, LAMBDA frame : try_loads(frame).val.id.int = id)
        alone(c) == [World EXCEPT !.conns[c].outgoing = <<>>]
        Alone(greenlet) ==
            IF greenlet.state = "done"
            THEN handler_dispatch(alone(greenlet.conn), greenlet.conn, greenlet.message,
                                  [steps |-> greenlet.body.before \o greenlet.body.after,
                                   end |-> greenlet.body.end]).conns[greenlet.conn].outgoing
            ELSE run_handler(alone(greenlet.conn), greenlet.conn, greenlet.message,
                             greenlet.body.before, FALSE).w.conns[greenlet.conn].outgoing
    IN  /\ \A g \in DOMAIN greenlets :
               Replies(greenlets[g].conn, greenlets[g].message.id.int) = Alone(greenlets[g])
        /\ \A c \in ConnIds : \A i \in 1..Len(conns[c].outgoing) :
               \E g \in DOMAIN greenlets :
                   /\ greenlets[g].conn = c
                   /\ greenlets[g].message.id.int = try_loads(conns[c].outgoing[i]).val.id.int

\* on two connections: the handler of the first request called
\* delay_response and suspended, the handler of the second started, called
\* early_response after it was resumed and returned, then the first was
\* resumed, called early_response and returned
C17_Witness ==
    /\ Len(greenlets) = 2
    /\ greenlets[1].conn = 1 /\ greenlets[2].conn = 2
    /\ greenlets[1].state = "done" /\ greenlets[2].state = "done"
    /\ greenlets[1].body = [before |-> <<"delay_response">>, after |-> <<"early_response">>,
                            end |-> "return"]
    /\ greenlets[2].body = [before |-> <<>>, after |-> <<"early_response">>, end |-> "return"]
    /\ hist.pushed = <<dumps(ReturnMessage(1)), dumps(ReturnMessage(1))>>
    /\ Len(conns[1].outgoing) = 1 /\ Len(conns[2].outgoing) = 1

(***************************************************************************)
(* Specification SpecChunk: a peer sends a byte stream of well-formed      *)
(* objects separated by whitespace, possibly ending inside an object; the  *)
(* read pump gets it in one recv() or split in two at any place.  In this  *)
(* specification scan_buf holds the stream.                                *)
(***************************************************************************)
\* the streams: two objects with or without a space between them (requests,
\* signals, an object whose string holds an escaped quote, an object in an
\* object after a space); an object and the start of a request; a request
\* as json.dumps prints it (longer than max_message_size)
ChunkStreams ==
    LET objects == {RequestFrame, SignalFrame, UnknownMethodFrame, WrongArgsFrame,
                    <<LBrace, Quote, Backslash, Quote, Quote, RBrace>>,
                    <<Space, LBrace, LBrace, RBrace, RBrace>>}
    IN  {first \o between \o second :
            first \in objects, between \in {<<>>, <<Space>>}, second \in objects}
        \cup {first \o RequestHead : first \in objects}
        \cup {dumps(CallMessage(1))}

InitChunk ==
    /\ scan_buf \in ChunkStreams
    /\ scan_res = Pending
    /\ InitWorld(<<NewConnection("peer", TRUE, <<"observer">>)>>, <<>>)

NextChunk ==
    \/ DoRead(1, {<<Data(scan_buf)>>}
                    \cup {<<Data(SubSeq(scan_buf, 1, k)), Data(SubSeq(scan_buf, k + 1, Len(scan_buf)))>> :
                              k \in 1..(Len(scan_buf) - 1)})
    \/ RunDispatch
    \/ RunHandler({PlainBody})

SpecChunk == InitChunk /\ [][NextChunk]_vars

\* C25: when the read pump has read the stream, in one piece or in two, and
\* nothing was dispatched yet, the connection is open and the frames queued
\* are frames of the stream as one recv() of the whole stream queues them:
\* all of them, with the same bytes left in the buffer, unless the pump
\* stopped reading because it throttled.
C25_ChunkingIndependent ==
    (hist.passes >= 1 /\ hist.taken = <<>>)
        => LET whole == extract_messages([conns[1] EXCEPT !.inbuf = scan_buf,
                                                          !.incoming = <<>>]).cn
           IN  /\ ~conns[1].closed
               /\ Len(hist.arrived) <= Len(whole.incoming)
               /\ hist.arrived = SubSeq(whole.incoming, 1, Len(hist.arrived))
               /\ conns[1].read_event
                      => /\ hist.arrived = whole.incoming
                         /\ conns[1].inbuf = whole.inbuf

====
